---------------------------- MODULE Spec2Model ----------------------------
(*
  Training orchestration and monitoring of the Sin conversational model:
  brain/monitor.py (TrainingMonitor) and sin.py (Sin.train and the session
  surface around it).

  Floats (losses, metric values) are modelled by small naturals; the
  collaborators the source only calls (model, trainer, evaluator, memory,
  optimizer, scheduler, matplotlib, the filesystem) are modelled by the
  effect of each call and by a nondeterministic choice of whether it raises.
*)
EXTENDS Integers, Sequences, FiniteSets, TLC

(***************************************************************************)
(* Bounds of the model.                                                    *)
(***************************************************************************)
MaxLoss == 1        \* a train step's loss is in 0..MaxLoss
MaxVal == 1         \* a metric value is in 0..MaxVal
MaxEpochs == 2      \* train is called with epochs in 0..MaxEpochs
MaxSteps == 4       \* optimizer steps the weights go through
MaxRuns == 2        \* calls of train
MaxSeries == 3      \* length of a metric series handed to get_best_epoch
MaxScore == 2       \* the values of such a series are in 0..MaxScore
MaxCut == 0         \* a failed json.dump leaves at most MaxCut tokens of the document
MaxFiles == 3       \* entries of data/conversations handed to _load_all_datasets
MaxCalls == 3       \* log_epoch calls made on one monitor
MaxTime == 6        \* modification times of the snapshots are in 1..MaxTime
MaxKeep == 2        \* _cleanup_old_models is called directly with max_models in 0..MaxKeep
MaxFail == 1        \* unlink calls that fail in one _cleanup_old_models
MaxPaths == 2       \* length of model_paths handed to compare_models

MetricNames == {"accuracy", "bleu"}
MetricOrder == <<"accuracy", "bleu">>

Losses == 0..MaxLoss
Vals == 0..MaxVal

(***************************************************************************)
(* Generic helpers.                                                        *)
(***************************************************************************)
Prefix(s, n) == SubSeq(s, 1, n)

IsPrefix(s, t) == Len(s) <= Len(t) /\ Prefix(t, Len(s)) = s

RECURSIVE SeqsUpTo(_, _)
SeqsUpTo(S, n) ==
    IF n = 0 THEN {<<>>}
    ELSE LET shorter == SeqsUpTo(S, n - 1)
         IN  shorter \cup {Append(s, x) : s \in {t \in shorter : Len(t) = n - 1}, x \in S}

(***************************************************************************)
(* The log of the monitor: self.current_log, a dict with the keys          *)
(* "epochs", "train_loss", "val_loss" and "metrics" (name -> list).        *)
(***************************************************************************)
MkLog(e, t, v, m) == [epochs |-> e, train_loss |-> t, val_loss |-> v, metrics |-> m]

Tracked(log) == DOMAIN log.metrics

\* the log with no record and no tracked metric name
EmptyLog == MkLog(<<>>, <<>>, <<>>, [n \in {} |-> <<>>])

(***************************************************************************)
(* json.dump / json.load of the log document, as a sequence of tokens.     *)
(***************************************************************************)
Pun(s) == [t |-> "pun", s |-> s, n |-> 0]
Key(s) == [t |-> "key", s |-> s, n |-> 0]
Num(n) == [t |-> "num", s |-> "", n |-> n]

Arr(s) == <<Pun("[")>> \o [i \in 1..Len(s) |-> Num(s[i])] \o <<Pun("]")>>

RECURSIVE DumpMetrics(_, _)
DumpMetrics(m, i) ==
    IF i > Len(MetricOrder) THEN <<>>
    ELSE (IF MetricOrder[i] \in DOMAIN m
          THEN <<Key(MetricOrder[i])>> \o Arr(m[MetricOrder[i]])
          ELSE <<>>) \o DumpMetrics(m, i + 1)

json_dump(log) ==
    <<Pun("{")>>
    \o <<Key("epochs")>> \o Arr(log.epochs)
    \o <<Key("train_loss")>> \o Arr(log.train_loss)
    \o <<Key("val_loss")>> \o Arr(log.val_loss)
    \o <<Key("metrics"), Pun("{")>> \o DumpMetrics(log.metrics, 1) \o <<Pun("}")>>
    \o <<Pun("}")>>

Tok(doc, i) == IF i \in 1..Len(doc) THEN doc[i] ELSE Pun("eof")

RECURSIVE NumsEnd(_, _)
NumsEnd(doc, i) == IF Tok(doc, i).t = "num" THEN NumsEnd(doc, i + 1) ELSE i

\* an array of numbers starting at token i: [ok, val, next]
ParseArr(doc, i) ==
    LET j == NumsEnd(doc, i + 1)
    IN  IF Tok(doc, i) = Pun("[") /\ Tok(doc, j) = Pun("]")
        THEN [ok |-> TRUE, val |-> [k \in 1..(j - i - 1) |-> doc[i + k].n], next |-> j + 1]
        ELSE [ok |-> FALSE, val |-> <<>>, next |-> i]

\* the members "name": [..] of an object up to its closing brace
RECURSIVE ParseMembers(_, _, _)
ParseMembers(doc, i, acc) ==
    IF Tok(doc, i) = Pun("}") THEN [ok |-> TRUE, val |-> acc, next |-> i + 1]
    ELSE IF Tok(doc, i).t # "key" THEN [ok |-> FALSE, val |-> acc, next |-> i]
    ELSE LET a == ParseArr(doc, i + 1)
             name == doc[i].s
         IN  IF ~a.ok THEN [ok |-> FALSE, val |-> acc, next |-> i]
             ELSE ParseMembers(doc, a.next,
                    [n \in (DOMAIN acc) \cup {name} |-> IF n = name THEN a.val ELSE acc[n]])

json_load(doc) ==
    LET e == ParseArr(doc, 3)
        t == ParseArr(doc, e.next + 1)
        v == ParseArr(doc, t.next + 1)
        m == ParseMembers(doc, v.next + 2, [n \in {} |-> <<>>])
        ok == /\ Tok(doc, 1) = Pun("{")
              /\ Tok(doc, 2) = Key("epochs") /\ e.ok
              /\ Tok(doc, e.next) = Key("train_loss") /\ t.ok
              /\ Tok(doc, t.next) = Key("val_loss") /\ v.ok
              /\ Tok(doc, v.next) = Key("metrics")
              /\ Tok(doc, v.next + 1) = Pun("{") /\ m.ok
              /\ Tok(doc, m.next) = Pun("}")
              /\ m.next = Len(doc)
    IN  IF ok THEN [ok |-> TRUE, val |-> MkLog(e.val, t.val, v.val, m.val)]
        ELSE [ok |-> FALSE, val |-> EmptyLog]


(***************************************************************************)
(* Values passed as val_metrics: None, a mapping name -> value, or a       *)
(* truthy object that is no mapping (it has no items()).                   *)
(***************************************************************************)
NoMetrics == [kind |-> "none", m |-> <<>>]
MapMetrics(f) == [kind |-> "map", m |-> f]
BadMetrics == [kind |-> "nomap", m |-> <<>>]

MetricMaps == UNION {[S -> Vals] : S \in SUBSET MetricNames}
ValMetrics == {NoMetrics, BadMetrics} \cup {MapMetrics(f) : f \in MetricMaps}

\* Python truthiness of val_metrics
Truthy(vm) == vm.kind = "nomap" \/ (vm.kind = "map" /\ DOMAIN vm.m # {})

(***************************************************************************)
(* TrainingMonitor (brain/monitor.py).                                     *)
(***************************************************************************)
\* what the environment does to one log_epoch call
NoFault == [at |-> "none", cut |-> 0]
OpenFault == [at |-> "open", cut |-> 0]
DumpFault(k) == [at |-> "dump", cut |-> k]
PlotFault == [at |-> "plot", cut |-> 0]

\* the faults that can hit a log_epoch whose serialized log is doc
Faults(doc) ==
    {NoFault, OpenFault, PlotFault}
    \cup {DumpFault(k) : k \in {c \in 0..MaxCut : c < Len(doc)}}

\* variant: the new entries are inserted in front of the lists
AppendEpochFront(log, epoch, train_loss) ==
    [log EXCEPT !.epochs = <<epoch>> \o @, !.train_loss = <<train_loss>> \o @]

\* lines 23-24: the two unconditional appends
AppendEpoch(log, epoch, train_loss) ==
    [log EXCEPT !.epochs = Append(@, epoch), !.train_loss = Append(@, train_loss)]

\* lines 27-29: a value is appended for every supplied name that is a key of metrics
AppendMetrics(log, m) ==
    [log EXCEPT !.metrics = [n \in DOMAIN log.metrics |->
                                IF n \in DOMAIN m THEN Append(log.metrics[n], m[n])
                                ELSE log.metrics[n]]]

\* _save_log: open(..., "w") truncates, json.dump writes the whole log
save_log(log, file, fault) ==
    CASE fault.at = "open" -> [file |-> file, raised |-> TRUE]
      [] fault.at = "dump" -> [file |-> Prefix(json_dump(log), fault.cut), raised |-> TRUE]
      [] OTHER -> [file |-> json_dump(log), raised |-> FALSE]

\* plt.plot(x, y) raises when x and y differ in length
PlotRaises(log) ==
    \/ log.val_loss # <<>> /\ Len(log.val_loss) # Len(log.epochs)
    \/ \E n \in DOMAIN log.metrics :
          log.metrics[n] # <<>> /\ Len(log.metrics[n]) # Len(log.epochs)

\* the figure, by what it shows: the number of epochs on the x axis and the
\* series drawn over them
Figure(log) ==
    [points |-> Len(log.epochs),
     lines |-> {"train_loss"} \cup (IF log.val_loss # <<>> THEN {"val_loss"} ELSE {})
               \cup {n \in DOMAIN log.metrics : log.metrics[n] # <<>>}]

NoFigure == [points |-> 0, lines |-> {}]

\* _plot_progress: the figure is rendered from the log and saved
plot_progress(log, plot, fault) ==
    IF fault.at = "plot" \/ PlotRaises(log)
    THEN [plot |-> plot, raised |-> TRUE]
    ELSE [plot |-> Figure(log), raised |-> FALSE]

\* the log after the appends of log_epoch (lines 23-29)
Logged(log, epoch, train_loss, val_metrics) ==
    LET l1 == AppendEpoch(log, epoch, train_loss)
    IN  IF val_metrics.kind = "map" /\ Truthy(val_metrics)
        THEN AppendMetrics(l1, val_metrics.m)
        ELSE l1

\* variant: the figure is rendered before the log is saved
log_epoch_render_first(log, file, plot, epoch, train_loss, val_metrics, fault) ==
    IF val_metrics.kind = "nomap"
    THEN [log |-> AppendEpoch(log, epoch, train_loss),
          file |-> file, plot |-> plot, raised |-> TRUE]
    ELSE LET l2 == Logged(log, epoch, train_loss, val_metrics)
                 p  == plot_progress(l2, plot, fault)
                 s  == save_log(l2, file, fault)
             IN  IF p.raised
                 THEN [log |-> l2, file |-> file, plot |-> plot, raised |-> TRUE]
                 ELSE [log |-> l2, file |-> s.file, plot |-> p.plot, raised |-> s.raised]

\* log_epoch: the monitor after the call and whether the call raised
log_epoch(log, file, plot, epoch, train_loss, val_metrics, fault) ==
    IF val_metrics.kind = "nomap"
    THEN [log |-> AppendEpoch(log, epoch, train_loss),
          file |-> file, plot |-> plot, raised |-> TRUE]
    ELSE LET l2 == Logged(log, epoch, train_loss, val_metrics)
                 s  == save_log(l2, file, fault)
                 p  == plot_progress(l2, plot, fault)
             IN  IF s.raised
                 THEN [log |-> l2, file |-> s.file, plot |-> plot, raised |-> TRUE]
                 ELSE [log |-> l2, file |-> s.file, plot |-> p.plot, raised |-> p.raised]

\* numpy.argmax: scan from the left, a later entry wins only when strictly greater
RECURSIVE ArgmaxScan(_, _, _)
ArgmaxScan(s, i, best) ==
    IF i > Len(s) THEN best
    ELSE ArgmaxScan(s, i + 1, IF s[i] > s[best] THEN i ELSE best)

\* variant: on a tie the later entry wins
RECURSIVE ArgmaxLastScan(_, _, _)
ArgmaxLastScan(s, i, best) ==
    IF i > Len(s) THEN best
    ELSE ArgmaxLastScan(s, i + 1, IF s[i] >= s[best] THEN i ELSE best)

argmax_last(s) == ArgmaxLastScan(s, 2, 1) - 1

argmax(s) == ArgmaxScan(s, 2, 1) - 1

\* get_best_epoch(metric)
get_best_epoch(log, metric) ==
    IF metric \notin DOMAIN log.metrics \/ log.metrics[metric] = <<>>
    THEN -1
    ELSE argmax(log.metrics[metric]) + 1

\* reset_logs, called by __init__: its body is not part of the sources; it
\* clears the records and the tracked names and writes the empty log
reset_logs == [log |-> EmptyLog, file |-> json_dump(EmptyLog)]

\* variant: the constructor takes up the log document it finds
monitor_init_resume(file) == [log |-> json_load(file).val, file |-> file]

\* TrainingMonitor.__init__: mkdir, then reset_logs; file is the log document found
monitor_init(file) == reset_logs

\* Sin.get_training_report: json.load of the log document
get_training_report(file) ==
    LET r == json_load(file)
    IN  IF r.ok THEN [raised |-> FALSE, val |-> r.val] ELSE [raised |-> TRUE, val |-> EmptyLog]

(***************************************************************************)
(* Sin (sin.py): the collaborators and the helpers of train.               *)
(***************************************************************************)
\* the entries of data/conversations, by what loading them does
FileKinds == {"json_dialogues", "json_nokey", "json_bad", "txt", "txt_bad", "other"}

\* the directories the training runs are checked on
SessionDirs == {<<"json_nokey", "txt_bad", "other">>, <<"txt", "json_bad", "json_dialogues">>}

\* lines 171-177: the entries that add a dataset
Loads(kind) == kind \in {"json_dialogues", "txt"}

\* variant: the first file that fails to load ends the listing
RECURSIVE LoadFromAbort(_, _)
LoadFromAbort(dir, i) ==
    IF i > Len(dir) THEN <<>>
    ELSE IF dir[i] \in {"json_bad", "txt_bad"} THEN <<>>
    ELSE (IF Loads(dir[i]) THEN <<i>> ELSE <<>>) \o LoadFromAbort(dir, i + 1)

RECURSIVE LoadFrom(_, _)
LoadFrom(dir, i) ==
    IF i > Len(dir) THEN <<>>
    ELSE (IF Loads(dir[i]) THEN <<i>> ELSE <<>>) \o LoadFrom(dir, i + 1)

\* _load_all_datasets: ConcatDataset(datasets) if datasets else None; every
\* loaded file holds one sample, so the combined dataset is the loaded entries
load_all_datasets(dir) ==
    LET datasets == LoadFrom(dir, 1)
    IN  [none |-> datasets = <<>>, items |-> datasets]

\* val_dataset of train: None, an empty dataset, a dataset with samples
ValSets == {"none", "empty", "some"}

\* `if val_dataset:`
HasVal(val) == val = "some"

\* the canonical snapshot written by save and read by _load_model
Canonical == "sin_model.pt"
ModelNames == {Canonical}
Absent == -1

\* _load_model: the saved weights if the canonical snapshot exists, else a new model
load_model(dir) == IF dir[Canonical] # Absent THEN dir[Canonical] ELSE 0

\* save: model.save(models/sin_model.pt), then memory.save(memory.json)
SaveFaults == {"none", "model", "memory"}

save(w, dir, mem, fault) ==
    CASE fault = "model" -> [dir |-> dir, mem |-> mem, raised |-> TRUE]
      [] fault = "memory" -> [dir |-> [dir EXCEPT ![Canonical] = w], mem |-> mem, raised |-> TRUE]
      [] OTHER -> [dir |-> [dir EXCEPT ![Canonical] = w], mem |-> "saved", raised |-> FALSE]

\* the calls train makes, in the order it makes them
Ev(e, ep, b) == [e |-> e, ep |-> ep, b |-> b]

\* one iteration of the batch loop (lines 127-132)
BatchCalls(ep, b, step_raises) ==
    IF step_raises
    THEN <<Ev("zero_grad", ep, b), Ev("train_step", ep, b)>>
    ELSE <<Ev("zero_grad", ep, b), Ev("train_step", ep, b),
           Ev("backward", ep, b), Ev("opt_step", ep, b)>>

\* variant: the validation runs before the schedule is advanced
ValidateCallsFirst(ep, val) ==
    (IF HasVal(val) THEN <<Ev("evaluate", ep, 0)>> ELSE <<>>) \o <<Ev("sched_step", ep, 0)>>

\* after the batch loop (lines 139-146)
ValidateCalls(ep, val) ==
    <<Ev("sched_step", ep, 0)>> \o (IF HasVal(val) THEN <<Ev("evaluate", ep, 0)>> ELSE <<>>)

\* variant: a failed batch is skipped
AfterBatchSkip(step_raises) == "batch"

\* where train goes after the batch loop body: the except of lines 153-155 re-raises
AfterBatch(step_raises) == IF step_raises THEN "raise" ELSE "batch"

\* variant: a failure of log_epoch is logged and the loop goes on
AfterLogSwallow(raised, epoch, epochs) == IF epoch < epochs THEN "batch" ELSE "finish"

\* where train goes after log_epoch: the next epoch, the end of the loop, or
\* out through the except clauses of lines 153-155 and 162-164
AfterLog(raised, epoch, epochs) ==
    IF raised THEN "raise"
    ELSE IF epoch < epochs THEN "batch" ELSE "finish"

\* variant: the check for an empty training set is missing
AfterLoadGo(ds) == "go"

\* where train goes after _load_all_datasets (lines 105-108)
AfterLoad(ds) == IF ds.none THEN "raise" ELSE "go"

(***************************************************************************)
(* State.                                                                  *)
(***************************************************************************)
VARIABLES
    current_log,    \* TrainingMonitor.current_log
    log_file,       \* data/logs/training_log.json, as the tokens written
    plot_file,      \* data/logs/training_progress.png, as the figure it shows
    weights,        \* the parameters of self.model: the optimizer steps they went through
    models_dir,     \* data/models: snapshot name -> saved weights, or Absent
    memory_file,    \* data/memory.json
    conv_dir,       \* data/conversations: the kinds of its entries, in listdir order
    pc,             \* where the session is: "idle", or inside train
    tr,             \* the arguments and locals of the running train
    run,            \* history: the current or last train call
    calls,          \* history: the log_epoch calls since the monitor was reset
    trains,         \* history: the number of train calls made
    last            \* history: the last query and what it returned

monVars == <<current_log, log_file, plot_file>>
diskVars == <<models_dir, memory_file, conv_dir>>
vars == <<current_log, log_file, plot_file, weights, models_dir, memory_file,
          conv_dir, pc, tr, run, calls, trains, last>>

Locals(epochs, val, items, epoch, batch_idx, total_loss, val_metrics) ==
    [epochs |-> epochs, val |-> val, items |-> items, epoch |-> epoch,
     batch_idx |-> batch_idx, total_loss |-> total_loss, val_metrics |-> val_metrics]

NoLocals == Locals(0, "none", <<>>, 0, 0, 0, NoMetrics)

NoRun ==
    [status |-> "none", fail |-> "none", epochs |-> 0, val |-> "none", items |-> <<>>,
     events |-> <<>>, start_log |-> EmptyLog, start_file |-> <<>>,
     start_dir |-> [n \in ModelNames |-> Absent], start_mem |-> "absent",
     epoch_log |-> EmptyLog, epoch_file |-> <<>>, names |-> {}, best |-> 0,
     ret |-> EmptyLog]

\* the last step taken: a query with what it returned, a log_epoch call with
\* what it was given, or another step of train
Op(op, raised, name, ret, doc, vm, fault) ==
    [op |-> op, raised |-> raised, name |-> name, ret |-> ret, doc |-> doc,
     vm |-> vm, fault |-> fault]

Step(op) == Op(op, FALSE, "", 0, EmptyLog, NoMetrics, "none")

\* Sin.__init__ on an empty data directory: a new model, a new monitor
\* (TrainingMonitor.__init__: mkdir, then reset_logs)
Init ==
    /\ current_log = monitor_init(<<>>).log
    /\ log_file = monitor_init(<<>>).file
    /\ plot_file = NoFigure
    /\ weights = 0
    /\ models_dir = [n \in ModelNames |-> Absent]
    /\ memory_file = "absent"
    /\ conv_dir \in SessionDirs
    /\ pc = "idle"
    /\ tr = NoLocals
    /\ run = NoRun
    /\ calls = <<>>
    /\ trains = 0
    /\ last = Step("init")

(***************************************************************************)
(* Sin.__init__: a new session object over the same data directory.        *)
(***************************************************************************)
Construct ==
    /\ pc = "idle"
    /\ weights' = load_model(models_dir)
    /\ current_log' = monitor_init(log_file).log
    /\ log_file' = monitor_init(log_file).file
    /\ tr' = NoLocals
    /\ run' = NoRun
    /\ calls' = <<>>
    /\ last' = Step("init")
    /\ UNCHANGED <<plot_file, models_dir, memory_file, conv_dir, pc, trains>>

(***************************************************************************)
(* Sin.train(epochs, val_dataset), one action per stretch of its code.     *)
(***************************************************************************)
Raised(r, fail, events) == [r EXCEPT !.status = "raised", !.fail = fail, !.events = events]

\* lines 101-123: load the datasets, validate once, build optimizer and schedule
TrainStart ==
    /\ pc = "idle"
    /\ trains < MaxRuns
    /\ trains' = trains + 1
    /\ \E epochs \in 0..MaxEpochs, val \in ValSets, baseline_raises \in BOOLEAN :
         LET ds == load_all_datasets(conv_dir)
             r0 == [NoRun EXCEPT !.status = "running", !.epochs = epochs, !.val = val,
                                 !.items = ds.items,
                                 !.start_log = current_log, !.start_file = log_file,
                                 !.start_dir = models_dir, !.start_mem = memory_file,
                                 !.epoch_log = current_log, !.epoch_file = log_file]
             ev0 == IF HasVal(val) THEN <<Ev("evaluate", 0, 0)>> ELSE <<>>
         IN  /\ weights + epochs * Len(ds.items) <= MaxSteps
             /\ baseline_raises => HasVal(val) /\ ~ds.none
             /\ IF AfterLoad(ds) = "raise"
                THEN /\ run' = Raised(r0, "no_data", <<>>)
                     /\ pc' = "idle"
                     /\ tr' = NoLocals
                ELSE IF baseline_raises
                THEN /\ run' = Raised(r0, "baseline", ev0)
                     /\ pc' = "idle"
                     /\ tr' = NoLocals
                ELSE IF epochs >= 1
                THEN /\ run' = [r0 EXCEPT !.events = ev0 \o <<Ev("train_mode", 1, 0)>>]
                     /\ pc' = "batch"
                     /\ tr' = Locals(epochs, val, ds.items, 1, 0, 0, NoMetrics)
                ELSE /\ run' = [r0 EXCEPT !.events = ev0]
                     /\ pc' = "finish"
                     /\ tr' = Locals(epochs, val, ds.items, 0, 0, 0, NoMetrics)
    /\ last' = Step("train")
    /\ UNCHANGED <<monVars, weights, diskVars, calls>>

\* lines 127-132: one batch
BatchStep ==
    /\ pc = "batch"
    /\ tr.batch_idx < Len(tr.items)
    /\ \E loss \in Losses, step_raises \in BOOLEAN :
         LET ev == run.events \o BatchCalls(tr.epoch, tr.batch_idx + 1, step_raises)
         IN  /\ last' = [Step("batch") EXCEPT !.raised = step_raises]
             /\ IF AfterBatch(step_raises) = "raise"
                THEN /\ run' = Raised(run, "batch", ev)
                     /\ pc' = "idle"
                     /\ tr' = NoLocals
                     /\ weights' = weights
                ELSE /\ run' = [run EXCEPT !.events = ev]
                     /\ pc' = "batch"
                     /\ tr' = [tr EXCEPT !.batch_idx = @ + 1, !.total_loss = @ + loss]
                     /\ weights' = weights + 1
    /\ UNCHANGED <<monVars, diskVars, calls, trains>>

\* lines 139-146: the schedule step and the validation of the epoch
Validate ==
    /\ pc = "batch"
    /\ tr.batch_idx = Len(tr.items)
    /\ \E vm \in ValMetrics, eval_raises \in BOOLEAN :
         LET ev == run.events \o ValidateCalls(tr.epoch, tr.val)
         IN  /\ ~HasVal(tr.val) => vm = NoMetrics /\ ~eval_raises
             /\ IF eval_raises
                THEN /\ run' = Raised(run, "evaluate", ev)
                     /\ pc' = "idle"
                     /\ tr' = NoLocals
                ELSE /\ run' = [run EXCEPT !.events = ev,
                                           !.names = @ \cup (IF vm.kind = "map" THEN DOMAIN vm.m ELSE {})]
                     /\ pc' = "log"
                     /\ tr' = [tr EXCEPT !.val_metrics = vm]
    /\ last' = Step("validate")
    /\ UNCHANGED <<monVars, weights, diskVars, calls, trains>>

\* the faults that can hit the log_epoch call of the epoch
LogFaults(log, epoch, loss, vm) ==
    IF vm.kind = "nomap" THEN {NoFault} ELSE Faults(json_dump(Logged(log, epoch, loss, vm)))

\* lines 148-155: log_epoch(epoch+1, total_loss, val_metrics), then the next epoch
LogStep ==
    /\ pc = "log"
    /\ \E fault \in LogFaults(current_log, tr.epoch, tr.total_loss, tr.val_metrics) :
         LET r == log_epoch(current_log, log_file, plot_file,
                            tr.epoch, tr.total_loss, tr.val_metrics, fault)
             ev == Append(run.events, Ev("log_epoch", tr.epoch, 0))
             next == AfterLog(r.raised, tr.epoch, tr.epochs)
         IN  /\ current_log' = r.log
             /\ log_file' = r.file
             /\ plot_file' = r.plot
             /\ calls' = Append(calls, [epoch |-> tr.epoch, loss |-> tr.total_loss,
                                        mapped |-> tr.val_metrics.kind = "map"
                                                   /\ Truthy(tr.val_metrics),
                                        raised |-> r.raised])
             /\ last' = Op("log_epoch", r.raised, "", 0, current_log,
                           tr.val_metrics, fault.at)
             /\ IF next = "raise"
                THEN /\ run' = Raised(run, "log", ev)
                     /\ pc' = "idle"
                     /\ tr' = NoLocals
                ELSE IF next = "batch"
                THEN /\ run' = [run EXCEPT !.events = Append(ev, Ev("train_mode", tr.epoch + 1, 0)),
                                           !.epoch_log = r.log, !.epoch_file = r.file]
                     /\ pc' = "batch"
                     /\ tr' = [tr EXCEPT !.epoch = @ + 1, !.batch_idx = 0, !.total_loss = 0,
                                         !.val_metrics = NoMetrics]
                ELSE /\ run' = [run EXCEPT !.events = ev]
                     /\ pc' = "finish"
                     /\ tr' = tr
    /\ UNCHANGED <<weights, diskVars, trains>>

\* lines 157-160: the best epoch, the save, the return of the log
Finish ==
    /\ pc = "finish"
    /\ \E fault \in SaveFaults :
         LET s == save(weights, models_dir, memory_file, fault)
             ev == run.events \o <<Ev("best_epoch", 0, 0), Ev("save", 0, 0)>>
             r1 == [run EXCEPT !.best = get_best_epoch(current_log, "accuracy")]
         IN  /\ models_dir' = s.dir
             /\ memory_file' = s.mem
             /\ run' = IF s.raised THEN Raised(r1, "save", ev)
                       ELSE [r1 EXCEPT !.status = "returned", !.events = ev,
                                       !.ret = current_log]
    /\ pc' = "idle"
    /\ tr' = NoLocals
    /\ last' = Step("finish")
    /\ UNCHANGED <<monVars, weights, conv_dir, calls, trains>>

(***************************************************************************)
(* Queries.                                                                *)
(***************************************************************************)
\* Sin.get_training_report()
Report ==
    /\ pc = "idle"
    /\ LET r == get_training_report(log_file)
       IN  last' = Op("get_training_report", r.raised, "", 0, r.val, NoMetrics, "none")
    /\ UNCHANGED <<monVars, weights, diskVars, pc, tr, run, calls, trains>>

\* TrainingMonitor.get_best_epoch(metric)
BestEpoch ==
    /\ pc = "idle"
    /\ \E name \in MetricNames :
         last' = Op("get_best_epoch", FALSE, name, get_best_epoch(current_log, name),
                    current_log, NoMetrics, "none")
    /\ UNCHANGED <<monVars, weights, diskVars, pc, tr, run, calls, trains>>

\* the conversation files are removed from data/conversations
RemoveConversations ==
    /\ pc = "idle"
    /\ conv_dir # <<>>
    /\ conv_dir' = <<>>
    /\ last' = Step("remove")
    /\ UNCHANGED <<monVars, weights, models_dir, memory_file, pc, tr, run, calls, trains>>

Next ==
    \/ Construct
    \/ RemoveConversations
    \/ TrainStart
    \/ BatchStep
    \/ Validate
    \/ LogStep
    \/ Finish
    \/ Report

Spec == Init /\ [][Next]_vars

(***************************************************************************)
(* Properties of the training runs (checked under Spec).                   *)
(***************************************************************************)
LastEvent == run.events[Len(run.events)]

\* the snapshot and the memory file are as the running train found them
NoSave == models_dir = run.start_dir /\ memory_file = run.start_mem

\* the records the current train call has added to the log
RunRecords == Len(current_log.epochs) - Len(run.start_log.epochs)

Succeeded == {i \in 1..Len(calls) : ~calls[i].raised}

\* C1: after K successful log_epoch calls with the epoch indices 1..K on a
\* freshly reset monitor, epochs is [1..K] and train_loss holds the K losses
\* passed, in call order; a later log_epoch never changes or removes an
\* earlier entry (every entry stays the one its own call appended).
C1_AppendOnly ==
    LET K == Len(calls)
    IN  /\ Len(current_log.epochs) = K
        /\ Len(current_log.train_loss) = K
        /\ \A i \in 1..K : /\ current_log.epochs[i] = calls[i].epoch
                           /\ current_log.train_loss[i] = calls[i].loss
        /\ (\A i \in 1..K : ~calls[i].raised /\ calls[i].epoch = i)
              => current_log.epochs = [i \in 1..K |-> i]

C1_Witness ==
    /\ Len(calls) = 2
    /\ \A i \in 1..2 : ~calls[i].raised /\ calls[i].epoch = i
    /\ calls[1].loss # calls[2].loss
    /\ current_log.train_loss = <<calls[1].loss, calls[2].loss>>

\* C2: after the N-th successful log_epoch, and until the next log_epoch,
\* the log document equals the in-memory log and holds exactly N records,
\* and get_training_report returns that structure.
C2_PersistedRecords ==
    (calls # <<>> /\ ~calls[Len(calls)].raised) =>
        /\ json_load(log_file).ok
        /\ json_load(log_file).val = current_log
        /\ Len(json_load(log_file).val.epochs) = Cardinality(Succeeded)
        /\ (last.op = "get_training_report" => ~last.raised /\ last.doc = current_log)

\* C4: the first log_epoch call with a non-empty metrics mapping makes every
\* name of the mapping tracked and records its value; a later call appends
\* the value of every supplied tracked name and leaves the tracked set as it
\* was (last.doc is the log before the call).
C4_TrackedFromFirstValidation ==
    (last.op = "log_epoch" /\ ~last.raised /\ last.vm.kind = "map" /\ DOMAIN last.vm.m # {}) =>
        LET before == last.doc.metrics
            after == current_log.metrics
            first == \A i \in 1..(Len(calls) - 1) : ~calls[i].mapped
        IN  /\ first => DOMAIN last.vm.m \subseteq DOMAIN after
            /\ ~first => DOMAIN after = DOMAIN before
            /\ \A n \in (DOMAIN last.vm.m) \cap (DOMAIN after) :
                  after[n] = Append(IF n \in DOMAIN before THEN before[n] ELSE <<>>,
                                    last.vm.m[n])

\* C5: right after the construction of the monitor (its reset) the in-memory
\* log has empty epochs, train_loss, val_loss and metrics, and the log
\* document is that same empty log.
C5_ResetEmpties ==
    last.op = "init" =>
        /\ current_log.epochs = <<>>
        /\ current_log.train_loss = <<>>
        /\ current_log.val_loss = <<>>
        /\ DOMAIN current_log.metrics = {}
        /\ json_load(log_file).ok
        /\ json_load(log_file).val = current_log

C5_Witness == last.op = "init" /\ plot_file.points = 2 /\ models_dir[Canonical] # Absent

\* C6: when log_epoch fails in epoch k of train (a fault while saving or
\* plotting, or metrics that cannot be iterated), log_epoch raises and train
\* raises; log_epoch(k) is the last call train made: no batch of a later
\* epoch, no get_best_epoch, no save.
C6_MonitorFailureFatal ==
    /\ (last.op = "log_epoch" /\ (last.fault # "none" \/ last.vm.kind = "nomap")) =>
          /\ last.raised
          /\ pc = "idle"
          /\ run.status = "raised"
          /\ run.fail = "log"
    /\ run.fail = "log" =>
          /\ run.status = "raised"
          /\ pc = "idle"
          /\ LastEvent.e = "log_epoch"
          /\ \A i \in 1..Len(run.events) :
                /\ run.events[i].e \notin {"best_epoch", "save"}
                /\ run.events[i].ep <= LastEvent.ep
          /\ NoSave

C6_Witness ==
    /\ last.op = "log_epoch"
    /\ last.fault = "dump"
    /\ run.fail = "log"
    /\ run.epochs = 2
    /\ LastEvent.ep = 1

\* the calls of a train(epochs, val) run over nb batches, in order
RECURSIVE ExpectedBatches(_, _, _)
ExpectedBatches(ep, b, nb) ==
    IF b > nb THEN <<>>
    ELSE <<Ev("zero_grad", ep, b), Ev("train_step", ep, b),
           Ev("backward", ep, b), Ev("opt_step", ep, b)>> \o ExpectedBatches(ep, b + 1, nb)

RECURSIVE ExpectedEpochs(_, _, _, _)
ExpectedEpochs(ep, epochs, nb, val) ==
    IF ep > epochs THEN <<>>
    ELSE <<Ev("train_mode", ep, 0)>> \o ExpectedBatches(ep, 1, nb)
         \o <<Ev("sched_step", ep, 0)>>
         \o (IF val = "some" THEN <<Ev("evaluate", ep, 0)>> ELSE <<>>)
         \o <<Ev("log_epoch", ep, 0)>>
         \o ExpectedEpochs(ep + 1, epochs, nb, val)

ExpectedRun(epochs, nb, val) ==
    (IF val = "some" THEN <<Ev("evaluate", 0, 0)>> ELSE <<>>)
    \o ExpectedEpochs(1, epochs, nb, val)
    \o <<Ev("best_epoch", 0, 0), Ev("save", 0, 0)>>

LogEvents == {i \in 1..Len(run.events) : run.events[i].e = "log_epoch"}

C8_BatchFailureAborts ==
    /\ (last.op = "batch" /\ last.raised) =>
          /\ pc = "idle"
          /\ run.status = "raised"
          /\ run.fail = "batch"
    /\ run.fail = "batch" =>
          /\ run.status = "raised"
          /\ pc = "idle"
          /\ LastEvent.e = "train_step"
          /\ \A i \in 1..Len(run.events) :
                /\ run.events[i].e \notin {"best_epoch", "save"}
                /\ run.events[i].ep <= LastEvent.ep
                /\ run.events[i].ep = LastEvent.ep =>
                      run.events[i].e # "log_epoch" /\ run.events[i].b <= LastEvent.b
          /\ current_log = run.epoch_log
          /\ log_file = run.epoch_file
          /\ RunRecords = LastEvent.ep - 1
          /\ NoSave

C8_Witness ==
    /\ run.fail = "batch"
    /\ LastEvent.ep = 2
    /\ LastEvent.b = 1
    /\ Len(run.items) = 2
    /\ RunRecords = 1

\* C9: when _load_all_datasets yields no training set, train raises at
\* once: it makes no evaluation, train step, optimizer or schedule step,
\* log_epoch or save, and the log, the log document and the snapshots are
\* as they were.
C9_NoTrainingData ==
    /\ (last.op = "train" /\ load_all_datasets(conv_dir).none) =>
          /\ pc = "idle"
          /\ run.status = "raised"
          /\ run.fail = "no_data"
    /\ run.fail = "no_data" =>
          /\ run.status = "raised"
          /\ run.events = <<>>
          /\ current_log = run.start_log
          /\ log_file = run.start_file
          /\ NoSave

C9_Witness ==
    /\ last.op = "train"
    /\ run.fail = "no_data"
    /\ run.epochs = 2
    /\ run.val = "some"
    /\ current_log.epochs # <<>>
    /\ models_dir[Canonical] # Absent

\* C10: a train(E, V) with a validation set that returns, returns a log whose
\* epochs are [1..E], whose train_loss holds the E loss sums of the run, and
\* whose metrics hold E values for every metric name the evaluator returned.
C10_ReturnedLog ==
    (run.status = "returned" /\ HasVal(run.val)) =>
        /\ run.ret.epochs = [i \in 1..run.epochs |-> i]
        /\ Len(run.ret.train_loss) = run.epochs
        /\ \A n \in run.names :
              /\ n \in DOMAIN run.ret.metrics
              /\ Len(run.ret.metrics[n]) = run.epochs

\* C16: log_epoch saves the log before it renders the figure: when the
\* rendering of epoch n fails, the log document already holds the record of
\* epoch n (one record more than before the call) and parses to the
\* in-memory log.
C16_PersistBeforeRender ==
    (last.op = "log_epoch" /\ last.fault = "plot") =>
        LET d == json_load(log_file)
            n == Len(current_log.epochs)
        IN  /\ d.ok
            /\ d.val = current_log
            /\ n = Len(last.doc.epochs) + 1
            /\ d.val.epochs[n] = calls[Len(calls)].epoch
            /\ Prefix(d.val.epochs, n - 1) = last.doc.epochs

C16_Witness ==
    /\ last.op = "log_epoch"
    /\ last.fault = "plot"
    /\ last.raised
    /\ current_log.epochs = <<1, 2>>
    /\ json_load(log_file).val.epochs = <<1, 2>>

\* C17: a failure of the rendering in log_epoch is not fatal: log_epoch
\* returns normally and the run goes on (it does not end raised in the
\* log_epoch call).
C17_RenderFailureNotFatal ==
    (last.op = "log_epoch" /\ last.fault = "plot") =>
        /\ ~last.raised
        /\ ~(run.status = "raised" /\ run.fail = "log")

\* C18: the log holds the records of the current train run only: whatever
\* train runs the session has seen, epochs is 1, 2, ..., without a repeated
\* index and without a record of an earlier run.
C18_LogOfCurrentRun ==
    /\ current_log.epochs = [i \in 1..Len(current_log.epochs) |-> i]
    /\ run.status # "none" => RunRecords = Len(current_log.epochs)

(***************************************************************************)
(* get_best_epoch on its own: every log with up to MaxSeries values per    *)
(* tracked metric, and the queries made on it.                             *)
(***************************************************************************)
Scores == 0..MaxScore

SeriesLogs ==
    {MkLog([i \in 1..MaxSeries |-> i], [i \in 1..MaxSeries |-> 0], <<>>, m) :
        m \in UNION {[T -> SeqsUpTo(Scores, MaxSeries)] : T \in SUBSET MetricNames}}

InitBest ==
    /\ current_log \in SeriesLogs
    /\ log_file = json_dump(current_log)
    /\ plot_file = NoFigure
    /\ weights = 0
    /\ models_dir = [n \in ModelNames |-> Absent]
    /\ memory_file = "absent"
    /\ conv_dir = <<>>
    /\ pc = "idle"
    /\ tr = NoLocals
    /\ run = NoRun
    /\ calls = <<>>
    /\ trains = 0
    /\ last = Step("init")

NextBest == BestEpoch

SpecBest == InitBest /\ [][NextBest]_vars

\* C3: get_best_epoch(name) returns -1 when the name is not tracked or its
\* series is empty; otherwise the smallest 1-based position at which the
\* series has its maximum; the log after the call is the log before it.
C3_BestEpoch ==
    last.op = "get_best_epoch" =>
        LET m == current_log.metrics
            name == last.name
        IN  /\ current_log = last.doc
            /\ IF name \notin DOMAIN m \/ m[name] = <<>>
               THEN last.ret = -1
               ELSE /\ last.ret \in 1..Len(m[name])
                    /\ \A j \in 1..Len(m[name]) : m[name][j] <= m[name][last.ret]
                    /\ \A j \in 1..(last.ret - 1) : m[name][j] < m[name][last.ret]

C3_Witness ==
    /\ last.op = "get_best_epoch"
    /\ last.name = "accuracy"
    /\ "accuracy" \in DOMAIN current_log.metrics
    /\ current_log.metrics["accuracy"] = <<1, 2, 2>>
    /\ last.ret = 2

(***************************************************************************)
(* _load_all_datasets on its own: every directory of up to MaxFiles        *)
(* entries, and the listing made of it.                                    *)
(***************************************************************************)
Dirs == SeqsUpTo(FileKinds, MaxFiles)

InitLoad ==
    /\ current_log = monitor_init(<<>>).log
    /\ log_file = monitor_init(<<>>).file
    /\ plot_file = NoFigure
    /\ weights = 0
    /\ models_dir = [n \in ModelNames |-> Absent]
    /\ memory_file = "absent"
    /\ conv_dir \in Dirs
    /\ pc = "idle"
    /\ tr = NoLocals
    /\ run = NoRun
    /\ calls = <<>>
    /\ trains = 0
    /\ last = Step("init")

\* Sin._load_all_datasets()
LoadAll ==
    /\ pc = "idle"
    /\ last' = Op("load_all_datasets", FALSE, "", 0, load_all_datasets(conv_dir),
                  NoMetrics, "none")
    /\ UNCHANGED <<monVars, weights, diskVars, pc, tr, run, calls, trains>>

NextLoad == LoadAll

SpecLoad == InitLoad /\ [][NextLoad]_vars

\* the entries of the directory that load without error
Loadable == {i \in 1..Len(conv_dir) : conv_dir[i] \in {"json_dialogues", "txt"}}

\* C15: _load_all_datasets does not raise whatever the directory holds; its
\* result combines exactly the entries that load, in directory order
\* (entries that fail to parse or load, json files without the "dialogues"
\* key and other files are left out), and it is None if and only if no
\* entry loaded.
C15_LoadIsolatesFailures ==
    last.op = "load_all_datasets" =>
        LET r == last.doc
        IN  /\ ~last.raised
            /\ {r.items[k] : k \in 1..Len(r.items)} = Loadable
            /\ \A k \in 1..(Len(r.items) - 1) : r.items[k] < r.items[k + 1]
            /\ r.none <=> Loadable = {}

C15_Witness ==
    /\ last.op = "load_all_datasets"
    /\ conv_dir = <<"txt", "json_bad", "json_dialogues">>
    /\ last.doc.items = <<1, 3>>
    /\ ~last.doc.none

(***************************************************************************)
(* The monitor on its own: a new TrainingMonitor, log_epoch called with    *)
(* the epoch indices 1, 2, ... and any metrics, get_best_epoch queried.    *)
(***************************************************************************)
InitMonitor ==
    /\ current_log = monitor_init(<<>>).log
    /\ log_file = monitor_init(<<>>).file
    /\ plot_file = NoFigure
    /\ weights = 0
    /\ models_dir = [n \in ModelNames |-> Absent]
    /\ memory_file = "absent"
    /\ conv_dir = <<>>
    /\ pc = "idle"
    /\ tr = NoLocals
    /\ run = NoRun
    /\ calls = <<>>
    /\ trains = 0
    /\ last = Step("init")

\* TrainingMonitor.log_epoch(epoch, train_loss, val_metrics), no fault of the
\* environment
LogEpoch ==
    /\ pc = "idle"
    /\ Len(calls) < MaxCalls
    /\ \E loss \in Losses, vm \in ValMetrics \ {BadMetrics} :
         LET epoch == Len(calls) + 1
             r == log_epoch(current_log, log_file, plot_file, epoch, loss, vm, NoFault)
         IN  /\ current_log' = r.log
             /\ log_file' = r.file
             /\ plot_file' = r.plot
             /\ calls' = Append(calls, [epoch |-> epoch, loss |-> loss,
                                        mapped |-> vm.kind = "map" /\ Truthy(vm),
                                        raised |-> r.raised, vm |-> vm])
             /\ last' = Op("log_epoch", r.raised, "", 0, current_log, vm, "none")
    /\ UNCHANGED <<weights, diskVars, pc, tr, run, trains>>

NextMonitor == LogEpoch \/ BestEpoch

SpecMonitor == InitMonitor /\ [][NextMonitor]_vars

\* the log_epoch calls that were given a value for the metric
Carried(name) ==
    {i \in 1..Len(calls) : calls[i].vm.kind = "map" /\ name \in DOMAIN calls[i].vm.m}

\* C20: when some log_epoch call was given a value of the metric,
\* get_best_epoch(name) returns the epoch index passed to the call that was
\* given the maximum of these values, the first such call on a tie, also
\* when other calls carried no metrics or not this metric.
C20_BestIsEpochIndex ==
    (last.op = "get_best_epoch" /\ Carried(last.name) # {}) =>
        \E i \in Carried(last.name) :
            /\ last.ret = calls[i].epoch
            /\ \A j \in Carried(last.name) :
                  /\ calls[j].vm.m[last.name] <= calls[i].vm.m[last.name]
                  /\ j < i => calls[j].vm.m[last.name] < calls[i].vm.m[last.name]

(***************************************************************************)
(* The models directory (sin.py): save, save_model, _cleanup_old_models.   *)
(* Here every snapshot is kept with its modification time:                 *)
(* models_dir[name] is [w |-> saved weights, mtime |-> time], or NoFile.   *)
(***************************************************************************)
File(w, t) == [w |-> w, mtime |-> t]

\* no file of that name
NoFile == File(Absent, 0)

\* datetime.now().strftime('%Y%m%d_%H%M%S') at the times 1, 2, ...
StampNames ==
    <<"sin_model_01.pt", "sin_model_02.pt", "sin_model_03.pt", "sin_model_04.pt",
      "sin_model_05.pt", "sin_model_06.pt", "sin_model_07.pt", "sin_model_08.pt">>

Stamp(t) == StampNames[t]

\* the model_name argument of save_model: None or "", or a stem with or
\* without the ".pt" suffix
NoName == [stem |-> "", pt |-> FALSE]
NameArgs == {NoName} \cup [stem : {"sin_model", "v1"}, pt : BOOLEAN]

\* stem + ".pt"
PtName(stem) == IF stem = "sin_model" THEN "sin_model.pt" ELSE "v1.pt"

\* lines 249-254: the file name save_model writes to
model_file_name(arg, now) ==
    IF arg.stem = "" THEN Stamp(now)
    ELSE IF ~arg.pt THEN PtName(arg.stem)
    ELSE PtName(arg.stem)

StoreNames == {Canonical, "v1.pt"} \cup {Stamp(t) : t \in 1..MaxTime}

Present(dir) == {n \in DOMAIN dir : dir[n] # NoFile}

\* the time of the next write: later than every snapshot in the directory
RECURSIVE MaxMtime(_, _)
MaxMtime(dir, S) ==
    IF S = {} THEN 0
    ELSE LET n == CHOOSE x \in S : TRUE
             rest == MaxMtime(dir, S \ {n})
         IN  IF dir[n].mtime > rest THEN dir[n].mtime ELSE rest

Now(dir) == MaxMtime(dir, Present(dir)) + 1

\* the number of *.pt files modified later than n
Newer(dir, n) == Cardinality({m \in Present(dir) : dir[m].mtime > dir[n].mtime})

\* _cleanup_old_models(max_models): glob('*.pt') sorted by st_mtime, newest
\* first; the entries from position max_models on are unlinked, a failing
\* unlink is logged and skipped
OldModels(dir, max_models) == {n \in Present(dir) : Newer(dir, n) >= max_models}

\* the unlink calls of one pruning that may fail
Failing(dir, max_models) ==
    {F \in SUBSET OldModels(dir, max_models) : Cardinality(F) <= MaxFail}

cleanup_old_models(dir, max_models, failing) ==
    [n \in DOMAIN dir |-> IF n \in OldModels(dir, max_models) \ failing THEN NoFile ELSE dir[n]]

\* max_models of the call in save_model
KeepModels == 5

\* save_model(model_name): model.save, then _cleanup_old_models(max_models=5)
save_model(w, dir, arg, save_raises, failing) ==
    LET name == model_file_name(arg, Now(dir))
        written == [dir EXCEPT ![name] = File(w, Now(dir))]
    IN  IF save_raises
        THEN [dir |-> dir, written |-> dir, name |-> name, raised |-> TRUE]
        ELSE [dir |-> cleanup_old_models(written, KeepModels, failing),
              written |-> written, name |-> name, raised |-> FALSE]

\* what a store operation was given and what it found
StoreOp(op, raised, name, before, written, keep, failing) ==
    Op(op, raised, name, 0,
       [before |-> before, written |-> written, keep |-> keep, failing |-> failing],
       NoMetrics, "none")

InitStore ==
    /\ current_log = monitor_init(<<>>).log
    /\ log_file = monitor_init(<<>>).file
    /\ plot_file = NoFigure
    /\ weights = 0
    /\ models_dir = [n \in StoreNames |-> NoFile]
    /\ memory_file = "absent"
    /\ conv_dir = <<>>
    /\ pc = "idle"
    /\ tr = NoLocals
    /\ run = NoRun
    /\ calls = <<>>
    /\ trains = 0
    /\ last = Step("init")

\* Sin.save()
Save ==
    /\ pc = "idle"
    /\ Now(models_dir) <= MaxTime
    /\ \E fault \in SaveFaults :
         LET s == save(File(weights, Now(models_dir)), models_dir, memory_file, fault)
         IN  /\ models_dir' = s.dir
             /\ memory_file' = s.mem
             /\ last' = StoreOp("save", s.raised, Canonical, models_dir, s.dir, 0, {})
    /\ UNCHANGED <<monVars, weights, conv_dir, pc, tr, run, calls, trains>>

\* Sin.save_model(model_name)
SaveModel ==
    /\ pc = "idle"
    /\ Now(models_dir) <= MaxTime
    /\ \E arg \in NameArgs, save_raises \in BOOLEAN, failing \in Failing(models_dir, KeepModels - 1) :
         LET s == save_model(weights, models_dir, arg, save_raises, failing)
         IN  /\ failing \subseteq (IF save_raises THEN {} ELSE OldModels(s.written, KeepModels))
             /\ models_dir' = s.dir
             /\ last' = StoreOp("save_model", s.raised, s.name, models_dir, s.written,
                                KeepModels, failing)
    /\ UNCHANGED <<monVars, weights, memory_file, conv_dir, pc, tr, run, calls, trains>>

\* Sin._cleanup_old_models(max_models)
Cleanup ==
    /\ pc = "idle"
    /\ \E max_models \in 0..MaxKeep :
       \E failing \in Failing(models_dir, max_models) :
         /\ models_dir' = cleanup_old_models(models_dir, max_models, failing)
         /\ last' = StoreOp("cleanup", FALSE, "", models_dir, models_dir, max_models, failing)
    /\ UNCHANGED <<monVars, weights, memory_file, conv_dir, pc, tr, run, calls, trains>>

NextStore == Save \/ SaveModel \/ Cleanup

SpecStore == InitStore /\ [][NextStore]_vars

\* the versioned snapshots: the *.pt files other than the canonical one
Versioned(dir) == Present(dir) \ {Canonical}

\* the max_models most recently modified of the versioned snapshots
NewestVersioned(dir, max_models) ==
    {n \in Versioned(dir) :
        Cardinality({m \in Versioned(dir) : dir[m].mtime > dir[n].mtime}) < max_models}

\* the outcome of a pruning on the versioned snapshots it found
PruneOutcome ==
    LET found == last.doc.written
        kept == NewestVersioned(found, last.doc.keep)
    IN  \A n \in Versioned(found) :
            models_dir[n] = IF n \in kept \/ n \in last.doc.failing THEN found[n] ELSE NoFile

\* C11: a pruning with max_models on a store of n versioned snapshots (their
\* modification times are distinct) does not raise and leaves the
\* min(n, max_models) most recently modified ones; of the others, those
\* whose deletion fails stay and every other one is removed.
C11_PruneKeepsNewest ==
    (last.op \in {"cleanup", "save_model"} /\ ~last.raised) => PruneOutcome

\* C12: whatever name save_model is given (none, with or without ".pt"), the
\* file it writes is not the canonical snapshot: the canonical snapshot is
\* not created and not rewritten by save_model.
C12_VersionedNotCanonical ==
    last.op = "save_model" =>
        /\ last.name # Canonical
        /\ last.doc.written[Canonical] = last.doc.before[Canonical]

\* C19: a pruning removes versioned snapshots only: a canonical snapshot that
\* is in the store before a save_model or a pruning is in the store after it.
C19_CanonicalSurvives ==
    (last.op \in {"cleanup", "save_model"} /\ last.doc.before[Canonical] # NoFile) =>
        models_dir[Canonical] # NoFile

\* a pruning of a store without a canonical snapshot
PruneWithoutCanonical ==
    (last.op \in {"cleanup", "save_model"} /\ ~last.raised
        /\ last.doc.written[Canonical] = NoFile) => PruneOutcome

(***************************************************************************)
(* Sin.compare_models(model_paths, test_dataset).                          *)
(* Here models_dir maps a path to the weights saved there, or Absent.      *)
(***************************************************************************)
SnapPath(dir, name) == [dir |-> dir, name |-> name]

\* the snapshots the comparisons are made on: two paths share their file
\* name, one path has no loadable file
Snapshots ==
    (SnapPath("models", "a.pt") :> 1) @@ (SnapPath("models", "b.pt") :> 2)
    @@ (SnapPath("old", "a.pt") :> 3) @@ (SnapPath("models", "gone.pt") :> Absent)

PathLists == SeqsUpTo(DOMAIN Snapshots, MaxPaths)

\* what self.evaluate(test_dataset) does in one iteration: it raises, or it
\* returns a mapping name -> value ({} for an empty test_dataset)
EvalOutcomes == {[raises |-> TRUE, m |-> <<>>]} \cup {[raises |-> FALSE, m |-> f] : f \in MetricMaps}

\* one entry of results, in insertion order
Result(name, metrics) ==
    [name |-> name, metrics |-> metrics, improved |-> FALSE, improvement |-> <<>>]

\* results[Path(path).name] = metrics: a new key is added at the end, an
\* existing key keeps its place and gets the new value
Record(res, name, metrics) ==
    IF \E j \in 1..Len(res) : res[j].name = name
    THEN [j \in 1..Len(res) |-> IF res[j].name = name THEN Result(name, metrics) ELSE res[j]]
    ELSE Append(res, Result(name, metrics))

\* lines 227-230: the loop over model_paths; m is the weights of the model
RECURSIVE CompareLoop(_, _, _, _, _, _)
CompareLoop(files, paths, evals, i, m, res) ==
    IF i > Len(paths) THEN [raised |-> FALSE, m |-> m, res |-> res]
    ELSE IF files[paths[i]] = Absent THEN [raised |-> TRUE, m |-> m, res |-> res]
    ELSE IF evals[i].raises THEN [raised |-> TRUE, m |-> files[paths[i]], res |-> res]
    ELSE CompareLoop(files, paths, evals, i + 1, files[paths[i]],
                     Record(res, paths[i].name, evals[i].m))

\* base[k] raises KeyError for a metric the first result does not have
KeyMissing(res) ==
    \E i \in 1..Len(res) : \E k \in DOMAIN res[i].metrics : k \notin DOMAIN res[1].metrics

\* lines 235-239: every entry of results, the first one included, gets
\* "improvement"
Derive(res) ==
    [i \in 1..Len(res) |->
        [res[i] EXCEPT !.improved = TRUE,
                       !.improvement = [k \in DOMAIN res[i].metrics |->
                                           res[i].metrics[k] - res[1].metrics[k]]]]

\* load_state_dict(original_state), where original_state = state_dict() was
\* taken before the loop: state_dict of torch.nn.Module returns the
\* parameters' own tensors and load_state_dict copies into them in place, so
\* with shared tensors original_state holds whatever was loaded last; a
\* model class whose state_dict returns copies gets its first weights back
Restore(original, current, shares) == IF shares THEN current ELSE original

compare_models(w, files, paths, evals, shares) ==
    LET l == CompareLoop(files, paths, evals, 1, w, <<>>)
        restored == Restore(w, l.m, shares)
    IN  IF l.raised
        THEN [weights |-> restored, raised |-> TRUE, results |-> <<>>]
        ELSE IF Len(l.res) > 1 /\ KeyMissing(l.res)
        THEN [weights |-> restored, raised |-> TRUE, results |-> <<>>]
        ELSE IF Len(l.res) > 1
        THEN [weights |-> restored, raised |-> FALSE, results |-> Derive(l.res)]
        ELSE [weights |-> restored, raised |-> FALSE, results |-> l.res]

InitCompare ==
    /\ current_log = monitor_init(<<>>).log
    /\ log_file = monitor_init(<<>>).file
    /\ plot_file = NoFigure
    /\ weights \in {0} \cup ({Snapshots[q] : q \in DOMAIN Snapshots} \ {Absent})
    /\ models_dir = Snapshots
    /\ memory_file = "absent"
    /\ conv_dir = <<>>
    /\ pc = "idle"
    /\ tr = NoLocals
    /\ run = NoRun
    /\ calls = <<>>
    /\ trains = 0
    /\ last = Step("init")

\* one compare_models call on the session, whatever weights its model has
Compare ==
    /\ pc = "idle"
    /\ last.op = "init"
    /\ \E paths \in PathLists, shares \in BOOLEAN :
       \E evals \in [1..Len(paths) -> EvalOutcomes] :
         LET c == compare_models(weights, models_dir, paths, evals, shares)
         IN  /\ weights' = c.weights
             /\ last' = Op("compare_models", c.raised, "", 0,
                           [before |-> weights, paths |-> paths, evals |-> evals,
                            shares |-> shares, results |-> c.results],
                           NoMetrics, "none")
    /\ UNCHANGED <<monVars, diskVars, pc, tr, run, calls, trains>>

NextCompare == Compare

SpecCompare == InitCompare /\ [][NextCompare]_vars

\* C13: after compare_models, whether it returned or raised (a snapshot that
\* does not load, an evaluation that fails, a failure while deriving the
\* improvements), the weights of the model are those it had before the call.
C13_CompareRestores ==
    last.op = "compare_models" => weights = last.doc.before

\* C14: when compare_models returns more than one result, every result after
\* the first holds "improvement", its metrics minus the metrics of the first
\* result per key, and the first result holds none; a single result holds
\* none.
C14_ImprovementAfterFirst ==
    (last.op = "compare_models" /\ ~last.raised) =>
        LET res == last.doc.results
        IN  /\ Len(res) >= 1 => ~res[1].improved
            /\ \A i \in 2..Len(res) :
                  /\ res[i].improved
                  /\ res[i].improvement =
                        [k \in DOMAIN res[i].metrics |-> res[i].metrics[k] - res[1].metrics[k]]

\* with a state_dict that returns copies the weights are restored on every path
RestoreWithCopies ==
    (last.op = "compare_models" /\ ~last.doc.shares) => weights = last.doc.before

\* the results after the first hold the differences to the first
ImprovementOfLater ==
    (last.op = "compare_models" /\ ~last.raised) =>
        LET res == last.doc.results
        IN  \A i \in 2..Len(res) :
                /\ res[i].improved
                /\ \A k \in DOMAIN res[i].metrics :
                      res[i].improvement[k] = res[i].metrics[k] - res[1].metrics[k]

=============================================================================
